---- MODULE Spec2Model ----
(***************************************************************************)
(* Model of the Pokemon Generator Lab client.                              *)
(*                                                                         *)
(*   - App (src/PokemonGenerator2/docs/02-api.md, lines 134-536): the      *)
(*     React component holding the in-memory mirror (pokemons,             *)
(*     tokenBalance, ...) and the asynchronous handlers                    *)
(*     handleGeneratePokemon, handleResellConfirmation, fetchAppData.      *)
(*   - PokemonApiService.generatePokemon                                   *)
(*     (src/PokemonGenerator2/services/pokemonApiService.ts).              *)
(*   - indexedDbService (the Local Store): its source is not part of the   *)
(*     files at hand; it is modelled from the specification's section 4.2. *)
(*                                                                         *)
(* An asynchronous handler is cut at its awaits: one action runs the code  *)
(* from one await to the next.  The awaited Store request takes effect,    *)
(* and the handler resumes, in the action that completes the request.      *)
(* Handlers read the values their closure captured when they were created  *)
(* (React state is captured per render), never the current state.          *)
(***************************************************************************)
EXTENDS Integers, Sequences, FiniteSets, TLC

(***************************************************************************)
(* Bounds of the model.                                                    *)
(***************************************************************************)
\* number of distinct ids the remote generator can hand out
MaxPokemons == 2
\* number of fetchAppData runs that may be in flight together
MaxFetch == 1
\* largest generatedAt timestamp the remote generator hands out
MaxTime == 1
\* largest balance found in the Store when the application starts
MaxInitBalance == 20

\* the clock of a call of generatePokemon: its step and its end, in ms
TimeStep == 10000

MaxClock == 40000

\* largest collection handed to sortPokemons on its own
MaxSortLen == 3

(***************************************************************************)
(* Program constants.                                                      *)
(***************************************************************************)
GENERATION_COST == 10

REQUEST_TIMEOUT == 30000

OWNED_POKEMON_SCORE == 10
RESOLD_POKEMON_SCORE == 2
OWNED == "OWNED"
RESOLD == "RESOLD"

PokemonRarity == {"F", "E", "D", "C", "B", "A", "S", "S+"}

POKEMON_RESELL_VALUES ==
  [r \in PokemonRarity |->
     CASE r = "F" -> 2 [] r = "E" -> 3 [] r = "D" -> 5 [] r = "C" -> 8
       [] r = "B" -> 12 [] r = "A" -> 18 [] r = "S" -> 25 [] r = "S+" -> 40]

RARITY_VALUES ==
  [r \in PokemonRarity |->
     CASE r = "F" -> 0 [] r = "E" -> 1 [] r = "D" -> 2 [] r = "C" -> 3
       [] r = "B" -> 4 [] r = "A" -> 5 [] r = "S" -> 6 [] r = "S+" -> 7]

POKEMON_TYPES ==
  << "Normal", "Fire", "Water", "Grass", "Electric", "Ice", "Fighting",
     "Poison", "Ground", "Flying", "Psychic", "Bug", "Rock", "Ghost",
     "Dragon", "Steel", "Dark", "Fairy" >>

POKEMON_ATTACKS ==
  << "Tackle", "Scratch", "Ember", "Water Gun", "Vine Whip", "Thunder Shock",
     "Quick Attack", "Bite", "Growl", "Tail Whip", "Sand Attack",
     "Confusion" >>

SortOrder == {"newestFirst", "rarityAsc", "rarityDesc"}

(***************************************************************************)
(* Sequence helpers.                                                       *)
(***************************************************************************)
Range(s) == {s[i] : i \in 1..Len(s)}

IdsOf(s) == {s[i].id : i \in 1..Len(s)}

\* Array.prototype.find(p => p.id === id): the first match, or none.
FindIndex(s, id) ==
  IF \E i \in 1..Len(s) : s[i].id = id
    THEN CHOOSE i \in 1..Len(s) :
           s[i].id = id /\ \A j \in 1..(i - 1) : s[j].id # id
    ELSE 0

(***************************************************************************)
(* sortPokemons: [...array].sort(comparator).  Array.prototype.sort is     *)
(* stable: elements the comparator calls equal keep their order.           *)
(***************************************************************************)
\* the descending branch a copy of the ascending one
Compare_DescAsAsc(a, b, order) ==
  CASE order = "newestFirst" -> b.generatedAt - a.generatedAt
    [] OTHER -> RARITY_VALUES[a.rarity] - RARITY_VALUES[b.rarity]

Compare(a, b, order) ==
  CASE order = "newestFirst" -> b.generatedAt - a.generatedAt
    [] order = "rarityAsc" -> RARITY_VALUES[a.rarity] - RARITY_VALUES[b.rarity]
    [] order = "rarityDesc" -> RARITY_VALUES[b.rarity] - RARITY_VALUES[a.rarity]
    [] OTHER -> 0

\* x goes after every element that does not compare greater than x
InsertSorted(x, s, order) ==
  LET k == Cardinality({i \in 1..Len(s) : Compare(s[i], x, order) <= 0})
      \* s is sorted, so those elements are its first k
  IN  SubSeq(s, 1, k) \o <<x>> \o SubSeq(s, k + 1, Len(s))

RECURSIVE SortFrom(_, _, _)
SortFrom(done, rest, order) ==
  IF rest = <<>> THEN done
  ELSE SortFrom(InsertSorted(Head(rest), done, order), Tail(rest), order)

sortPokemons(pokemonsArray, currentSortOrder) ==
  SortFrom(<<>>, pokemonsArray, currentSortOrder)

(***************************************************************************)
(* pokedexScore.                                                           *)
(***************************************************************************)
RECURSIVE ScoreFrom(_, _)
ScoreFrom(score, rest) ==
  IF rest = <<>> THEN score
  ELSE ScoreFrom(
         IF Head(rest).status = OWNED THEN score + OWNED_POKEMON_SCORE
         ELSE IF Head(rest).status = RESOLD THEN score + RESOLD_POKEMON_SCORE
         ELSE score,
         Tail(rest))

\* the RESOLD records forgotten
pokedexScore_OwnedOnly(pokemonsArray) ==
  OWNED_POKEMON_SCORE * Len(SelectSeq(pokemonsArray, LAMBDA p : p.status = OWNED))

pokedexScore(pokemonsArray) == ScoreFrom(0, pokemonsArray)

(***************************************************************************)
(* The Local Store (indexedDbService).  Each call is atomic.  `fault` is   *)
(* a failure of the storage engine itself (the request is rejected and     *)
(* nothing is written).  A result is [ok, err, db]: db is the family after *)
(* the call.                                                               *)
(***************************************************************************)
StoreFaults == {FALSE, TRUE}

addPokemon(db, record, fault) ==
  IF fault THEN [ok |-> FALSE, err |-> "StoreFailure", db |-> db]
  ELSE IF record.id \in IdsOf(db)
    THEN [ok |-> FALSE, err |-> "DuplicateId", db |-> db]
  ELSE [ok |-> TRUE, err |-> "", db |-> Append(db, record)]

updatePokemon(db, record, fault) ==
  LET i == FindIndex(db, record.id)
  IN  IF fault THEN [ok |-> FALSE, err |-> "StoreFailure", db |-> db]
      ELSE IF i = 0 THEN [ok |-> FALSE, err |-> "NotFound", db |-> db]
      ELSE IF db[i].status = RESOLD /\ record.status = OWNED
        THEN [ok |-> FALSE, err |-> "InvalidTransition", db |-> db]
      ELSE [ok |-> TRUE, err |-> "", db |-> [db EXCEPT ![i] = record]]

updateTokenBalance(balance, amount, fault) ==
  IF fault THEN [ok |-> FALSE, err |-> "StoreFailure", db |-> balance]
  ELSE IF amount < 0 THEN [ok |-> FALSE, err |-> "InvalidValue", db |-> balance]
  ELSE [ok |-> TRUE, err |-> "", db |-> amount]

\* the reads: value is what the call resolves with
getPokemons(db, fault) ==
  IF fault THEN [ok |-> FALSE, err |-> "StoreFailure", value |-> <<>>]
  ELSE [ok |-> TRUE, err |-> "", value |-> db]

getTokenBalance(balance, fault) ==
  IF fault THEN [ok |-> FALSE, err |-> "StoreFailure", value |-> 0]
  ELSE [ok |-> TRUE, err |-> "", value |-> balance]

(***************************************************************************)
(* PokemonApiService.generatePokemon.                                      *)
(*                                                                         *)
(* resp is what the network does with the one GET request:                 *)
(*   fetch        how `await fetch(...)` ends: "resolved", or rejected     *)
(*                with "AbortError" (the timer aborted it),                *)
(*                "FailedToFetch" (TypeError 'Failed to fetch') or         *)
(*                "OtherError"                                             *)
(*   ok, status   res.ok and res.status                                    *)
(*   errorBody    res.json() of an error response: "undecodable",          *)
(*                "noMessage" (decodes, holds no error.message),           *)
(*                "message"; errorMessage is that message                  *)
(*   body         res.json() of a success response: "undecodable",         *)
(*                "null", "object"; data is the object.  A missing field   *)
(*                of data is "" (or 0 for generatedAt): undefined and the  *)
(*                empty string are both falsy.  status is the status code  *)
(*                written as a string ("500")                              *)
(* rnd are the four values Math.floor(Math.random() * n) takes.            *)
(* The result is [ok |-> TRUE, pokemon] or [ok |-> FALSE, error], error    *)
(* being the Error thrown: its kind and its message, a pair <<text,        *)
(* detail>> of strings.                                                    *)
(***************************************************************************)
Falsy(v) == v = ""

FalsyNumber(n) == n = 0

Throw(kind, message) ==
  [ok |-> FALSE, error |-> [kind |-> kind, message |-> message]]

\* every error wrapped in one generic message
CatchBlock_GenericWrapper(thrown) ==
  Throw("UnknownError", <<"Failed to generate Pokemon", "">>)

\* lines 100-116: the catch block
CatchBlock(thrown) ==
  IF thrown.kind = "AbortError"
    THEN Throw("Timeout", <<"The Pokemon generation request timed out", "30 seconds">>)
  ELSE IF thrown.kind = "FailedToFetch"
    THEN Throw("NetworkUnavailable", <<"Could not connect to the Pokemon API", "check certificate and CORS">>)
  ELSE Throw(thrown.kind, thrown.message)

\* the body's message dropped: every response that is not ok reported by
\* its status alone
ErrorResponse_StatusOnly(resp) ==
  [kind |-> "UnknownError", message |-> <<"HTTP error! Status", resp.status>>]

\* lines 52-62: a response that is not ok
ErrorResponse(resp) ==
  LET errorMessage ==
        IF resp.errorBody = "undecodable"
          THEN <<"HTTP error! Status", resp.status>>
        ELSE IF resp.errorBody = "noMessage" \/ Falsy(resp.errorMessage)
          THEN <<"Failed to generate Pokemon (HTTP)", resp.status>>
        ELSE <<resp.errorMessage, "">>
      kind ==
        IF resp.errorBody = "message" /\ ~Falsy(resp.errorMessage)
          THEN "RemoteError" ELSE "UnknownError"
  IN  [kind |-> kind, message |-> errorMessage]

\* lines 68-78: the four stats of the metadata are set to the mocked values
Mocked(data, rnd) ==
  [data EXCEPT !.type = POKEMON_TYPES[rnd.type + 1],
               !.attack = rnd.attack + 10,
               !.attackName = POKEMON_ATTACKS[rnd.attackName + 1],
               !.pv = rnd.pv + 50]

\* lines 81-98: the validation, the Pokemon object
Validated(data) ==
  IF Falsy(data.imageBase64) \/ Falsy(data.id) \/ Falsy(data.name)
       \/ Falsy(data.rarity) \/ Falsy(data.type) \/ FalsyNumber(data.attack)
       \/ Falsy(data.attackName) \/ FalsyNumber(data.pv)
       \/ FalsyNumber(data.generatedAt)
    THEN [ok |-> FALSE,
          error |-> [kind |-> "MalformedResponse",
                     message |-> <<"Invalid API response format received", "">>]]
  ELSE [ok |-> TRUE,
        pokemon |-> [id |-> data.id, name |-> data.name,
                     rarity |-> data.rarity, type |-> data.type,
                     attack |-> data.attack, attackName |-> data.attackName,
                     pv |-> data.pv, imageBase64 |-> data.imageBase64,
                     generatedAt |-> data.generatedAt, status |-> OWNED]]

\* a stat mocked only where the response holds none
BuildPokemon_KeepsResponseStats(data, rnd) ==
  LET m == Mocked(data, rnd)
  IN  Validated([m EXCEPT !.type = IF Falsy(data.type) THEN @ ELSE data.type,
                          !.attack = IF FalsyNumber(data.attack) THEN @ ELSE data.attack,
                          !.attackName = IF Falsy(data.attackName) THEN @ ELSE data.attackName,
                          !.pv = IF FalsyNumber(data.pv) THEN @ ELSE data.pv])

\* lines 66-98: the mocked stats, the validation, the Pokemon object
BuildPokemon(data, rnd) == Validated(Mocked(data, rnd))

generatePokemon(resp, rnd) ==
  IF resp.fetch # "resolved"
    THEN CatchBlock([kind |-> resp.fetch, message |-> <<"fetch rejected", "">>])
  ELSE IF ~resp.ok THEN CatchBlock(ErrorResponse(resp))
  ELSE IF resp.body = "undecodable"
    THEN CatchBlock([kind |-> "SyntaxError", message |-> <<"Unexpected token in JSON", "">>])
  ELSE IF resp.body = "null" \/ ~resp.data.hasMetadata
    \* data.metadata.type = ... on a null data or a missing metadata
    THEN CatchBlock([kind |-> "TypeError", message |-> <<"Cannot set properties of undefined", "">>])
  ELSE LET built == BuildPokemon(resp.data, rnd)
       IN  IF built.ok THEN built ELSE CatchBlock(built.error)

(***************************************************************************)
(* What the remote generator and Math.random can answer in the model.      *)
(***************************************************************************)
IdNames == <<"p1", "p2", "p3", "p4", "p5">>

GenIds == {IdNames[k] : k \in 1..MaxPokemons}

GenRarities == {"F", "A"}

\* the documented success body; it holds none of the four stats
GoodData(id, rarity, at) ==
  [imageBase64 |-> "iVBORw0KGgo", hasMetadata |-> TRUE, id |-> id,
   name |-> "Voltadraco", rarity |-> rarity, generatedAt |-> at,
   type |-> "", attack |-> 0, attackName |-> "", pv |-> 0]

\* a success body whose metadata holds stats of the server's own
WithStats(data) ==
  [data EXCEPT !.type = "Shadow", !.attack = 999, !.attackName = "Hyper Beam", !.pv = 1]

Success(data) ==
  [fetch |-> "resolved", ok |-> TRUE, status |-> "200", errorBody |-> "undecodable",
   errorMessage |-> "", body |-> "object", data |-> data]

Failure(fetch, status, errorBody, errorMessage) ==
  [fetch |-> fetch, ok |-> FALSE, status |-> status, errorBody |-> errorBody,
   errorMessage |-> errorMessage, body |-> "undecodable",
   data |-> GoodData("", "", 0)]

SuccessResponses ==
  {Success(GoodData(id, rarity, at)) :
     id \in GenIds, rarity \in GenRarities, at \in 1..MaxTime}

FailureResponses ==
  { Failure("AbortError", "", "undecodable", ""),
    Failure("FailedToFetch", "", "undecodable", ""),
    Failure("resolved", "500", "message", "GENERATION_FAILED"),
    Failure("resolved", "429", "undecodable", ""),
    Success([GoodData("p1", "F", 1) EXCEPT !.id = ""]) }

Responses == SuccessResponses \cup FailureResponses

RandomDraws == {[type |-> 0, attack |-> 0, attackName |-> 0, pv |-> 0]}

(***************************************************************************)
(* State.                                                                  *)
(***************************************************************************)
VARIABLES
  \* React state of App (the in-memory mirror)
  pokemons, tokenBalance, isLoading, isGeneratingPokemon, sortOrder,
  \* isModalOpen, isModalConfirmLoading and the closure held by modalOnConfirm
  modal,
  \* the Local Store: the Pokemon family, as persisted, and the balance
  dbPokemons, dbBalance,
  \* the asynchronous runs of handleGeneratePokemon, of the resell
  \* confirmation and of fetchAppData, each at its await
  gen, resell, fetch,
  \* the Store requests issued and not yet completed, oldest first
  queue,
  \* the step taken last and the message it showed (history; the program
  \* does not read it).  The message on display, its timer and its dismiss
  \* button are presentation and are left out.
  ev,
  \* the balance the Store held when the application was mounted (history)
  initialBalance,
  \* one call of generatePokemon followed on the clock: where it is, the
  \* time since it was issued, its timer, the answer under way, its result
  api

mem == <<pokemons, tokenBalance, isLoading, isGeneratingPokemon, sortOrder, modal>>

store == <<dbPokemons, dbBalance>>

vars == <<pokemons, tokenBalance, isLoading, isGeneratingPokemon, sortOrder, modal, dbPokemons, dbBalance, gen, resell, fetch, queue, ev, initialBalance, api>>

NoMessage == [type |-> "none", text |-> "", error |-> <<"", "">>, note |-> ""]

\* showMessage(type, text): text, the error's message and a trailing note
Message(type, text, error, note) ==
  [type |-> type, text |-> text, error |-> error, note |-> note]

NoPokemon ==
  [id |-> "", name |-> "", rarity |-> "", type |-> "", attack |-> 0,
   attackName |-> "", pv |-> 0, imageBase64 |-> "", generatedAt |-> 0,
   status |-> ""]

NoError == [kind |-> "", message |-> <<"", "">>]

StoreError(err) == [kind |-> err, message |-> <<err, "">>]

NoClosure ==
  [pokemonId |-> "", resellPrice |-> 0, pokemonToResell |-> NoPokemon,
   tokenBalance |-> 0, sortOrder |-> "newestFirst"]

\* a step and the message it showed with showMessage
Event(name, shown) == [name |-> name, message |-> shown]

Step(name) == Event(name, NoMessage)

ModalClosed == [isOpen |-> FALSE, isConfirmLoading |-> FALSE, closure |-> NoClosure]

(***************************************************************************)
(* The Store's requests.  Requests on one record family complete in the    *)
(* order they were issued; requests on different families are independent. *)
(***************************************************************************)
Request(proc, k, family) == [proc |-> proc, k |-> k, family |-> family]

CanComplete(req) ==
  \E i \in 1..Len(queue) :
    /\ queue[i] = req
    /\ \A j \in 1..(i - 1) : queue[j].family # req.family

Without(q, req) ==
  LET i == CHOOSE i \in 1..Len(q) : q[i] = req
  IN  SubSeq(q, 1, i - 1) \o SubSeq(q, i + 1, Len(q))

(***************************************************************************)
(* handleGeneratePokemon.                                                  *)
(***************************************************************************)
GenIdle ==
  [pc |-> "idle", originalTokenBalance |-> 0, sortOrder |-> "newestFirst",
   newPokemon |-> NoPokemon, error |-> NoError,
   \* history, kept while the flow runs: the await whose rejection entered
   \* the catch block, the collections' ids when the flow started, and
   \* whether no other flow has taken a step since
   failedAt |-> "", startIds |-> {}, startDbIds |-> {}, alone |-> TRUE]

GenRequest == Request("gen", 0, "balance")

GenAddRequest == Request("gen", 0, "pokemons")

\* a step of another flow while a generate flow is in flight
Disturbed(g) == IF g.pc = "idle" THEN g ELSE [g EXCEPT !.alone = FALSE]

\* an await: the handler goes on when the call resolves and enters its
\* catch block when the call rejects
Resolved(r) == r.ok

\* the cost taken twice
Debited_Twice(balance) == balance - 2 * GENERATION_COST

\* line 265: newBalanceAfterDeduction
Debited(balance) == balance - GENERATION_COST

\* line 414: the generate button's disabled attribute
GenerateDisabled ==
  isGeneratingPokemon \/ isLoading \/ tokenBalance < GENERATION_COST

\* the check off by one: a balance one short of the cost passes
InsufficientFunds_OffByOne == tokenBalance < GENERATION_COST - 1

\* lines 255-258: the handler's own check
InsufficientFunds == tokenBalance < GENERATION_COST

\* lines 254-267: up to the first await
handleGeneratePokemon ==
  IF InsufficientFunds
    THEN /\ ev' = Event("GenRejected", Message("warning", "You need 10 tokens to generate a Pokemon", <<"", "">>, ""))
         /\ UNCHANGED <<mem, store, gen, resell, fetch, queue>>
    ELSE /\ isGeneratingPokemon' = TRUE
         /\ gen' = [GenIdle EXCEPT !.pc = "awaitDebit",
                                   !.originalTokenBalance = tokenBalance,
                                   !.sortOrder = sortOrder,
                                   !.startIds = IdsOf(pokemons),
                                   !.startDbIds = IdsOf(dbPokemons)]
         /\ tokenBalance' = Debited(tokenBalance)
         /\ queue' = Append(queue, GenRequest)
         /\ ev' = Step("GenStarted")
         /\ UNCHANGED <<pokemons, isLoading, sortOrder, modal>>
         /\ UNCHANGED <<store, resell, fetch>>

\* lines 274-279: the catch block up to its await; q is the queue it finds
GenCatch(error, at, q) ==
  /\ tokenBalance' = gen.originalTokenBalance
  /\ gen' = [gen EXCEPT !.pc = "awaitRollback", !.error = error, !.failedAt = at]
  /\ queue' = Append(q, GenRequest)

\* lines 281-283: the finally block, and the handler's end
GenFinally ==
  /\ isGeneratingPokemon' = FALSE
  /\ gen' = GenIdle

\* the generate button is clicked (the open modal covers the page)
GenerateClick ==
  /\ ~GenerateDisabled
  /\ ~modal.isOpen
  /\ handleGeneratePokemon
  /\ UNCHANGED <<initialBalance, api>>

\* the remote call issued whatever the debit write answered
GenDebitDone_CallsAnyway ==
  /\ gen.pc = "awaitDebit"
  /\ CanComplete(GenRequest)
  /\ \E fault \in StoreFaults :
       LET r == updateTokenBalance(dbBalance, Debited(gen.originalTokenBalance), fault)
       IN  /\ dbBalance' = r.db
           /\ ev' = Step(IF Resolved(r) THEN "GenDebited" ELSE "GenDebitFailed")
  /\ gen' = [gen EXCEPT !.pc = "awaitApi"]
  /\ queue' = Without(queue, GenRequest)
  /\ UNCHANGED <<pokemons, tokenBalance, isLoading, isGeneratingPokemon, sortOrder, modal>>
  /\ UNCHANGED <<dbPokemons, resell, fetch>>
  /\ UNCHANGED <<initialBalance, api>>

\* line 267 completes: the debit is written, or the write is rejected
GenDebitDone ==
  /\ gen.pc = "awaitDebit"
  /\ CanComplete(GenRequest)
  /\ \E fault \in StoreFaults :
       LET r == updateTokenBalance(dbBalance, Debited(gen.originalTokenBalance), fault)
       IN  IF Resolved(r)
             THEN /\ dbBalance' = r.db
                  \* line 269: the remote call is issued
                  /\ gen' = [gen EXCEPT !.pc = "awaitApi"]
                  /\ queue' = Without(queue, GenRequest)
                  /\ ev' = Step("GenDebited")
                  /\ UNCHANGED tokenBalance
             ELSE /\ GenCatch(StoreError(r.err), "debit", Without(queue, GenRequest))
                  /\ ev' = Step("GenDebitFailed")
                  /\ UNCHANGED dbBalance
  /\ UNCHANGED <<pokemons, isLoading, isGeneratingPokemon, sortOrder, modal>>
  /\ UNCHANGED <<dbPokemons, resell, fetch>>
  /\ UNCHANGED <<initialBalance, api>>

\* line 269, generatePokemon up to its line 48: fetch rejects (the timer of
\* its line 36 aborts it at the latest), or resolves with the response's
\* status and headers and the timer is cleared (its line 50)
GenFetchDone ==
  /\ gen.pc = "awaitApi"
  /\ \E resp \in Responses, rnd \in RandomDraws :
       IF resp.fetch # "resolved"
         THEN /\ GenCatch(generatePokemon(resp, rnd).error, "api", queue)
              /\ ev' = Step("GenApiFailed")
         ELSE /\ gen' = [gen EXCEPT !.pc = "awaitBody"]
              /\ ev' = Step("GenFetched")
              /\ UNCHANGED <<tokenBalance, queue>>
  /\ UNCHANGED <<pokemons, isLoading, isGeneratingPokemon, sortOrder, modal>>
  /\ UNCHANGED <<store, resell, fetch>>
  /\ UNCHANGED <<initialBalance, api>>

\* line 269 completes, generatePokemon from its line 52: the body is read
\* and generatePokemon resolves or rejects
GenBodyDone ==
  /\ gen.pc = "awaitBody"
  /\ \E resp \in Responses, rnd \in RandomDraws :
       /\ resp.fetch = "resolved"
       /\ LET r == generatePokemon(resp, rnd)
          IN  IF Resolved(r)
                THEN \* line 270: addPokemon is issued
                     /\ gen' = [gen EXCEPT !.pc = "awaitAdd", !.newPokemon = r.pokemon]
                     /\ queue' = Append(queue, GenAddRequest)
                     /\ ev' = Step("GenApiOk")
                     /\ UNCHANGED tokenBalance
                ELSE /\ GenCatch(r.error, "api", queue)
                     /\ ev' = Step("GenApiFailed")
  /\ UNCHANGED <<pokemons, isLoading, isGeneratingPokemon, sortOrder, modal>>
  /\ UNCHANGED <<store, resell, fetch>>
  /\ UNCHANGED <<initialBalance, api>>

\* the record merged in memory before addPokemon is known to have written
\* it: line 271 moved above the await of line 270
GenAddDone_MergesFirst ==
  /\ gen.pc = "awaitAdd"
  /\ CanComplete(GenAddRequest)
  /\ pokemons' = sortPokemons(<<gen.newPokemon>> \o pokemons, gen.sortOrder)
  /\ \E fault \in StoreFaults :
       LET r == addPokemon(dbPokemons, gen.newPokemon, fault)
       IN  IF Resolved(r)
             THEN /\ dbPokemons' = r.db
                  /\ GenFinally
                  /\ queue' = Without(queue, GenAddRequest)
                  /\ ev' = Event("GenSettled", Message("success", "Awesome! You generated a new Pokemon", <<"", "">>, ""))
                  /\ UNCHANGED tokenBalance
             ELSE /\ GenCatch(StoreError(r.err), "add", Without(queue, GenAddRequest))
                  /\ ev' = Step("GenAddFailed")
                  /\ UNCHANGED <<isGeneratingPokemon, dbPokemons>>
  /\ UNCHANGED <<isLoading, sortOrder, modal, dbBalance, resell, fetch>>
  /\ UNCHANGED <<initialBalance, api>>

\* line 270 completes: the record is persisted (then lines 271-272 and
\* the finally block run), or addPokemon rejects
GenAddDone ==
  /\ gen.pc = "awaitAdd"
  /\ CanComplete(GenAddRequest)
  /\ \E fault \in StoreFaults :
       LET r == addPokemon(dbPokemons, gen.newPokemon, fault)
       IN  IF Resolved(r)
             THEN /\ dbPokemons' = r.db
                  /\ pokemons' = sortPokemons(<<gen.newPokemon>> \o pokemons, gen.sortOrder)
                  /\ GenFinally
                  /\ queue' = Without(queue, GenAddRequest)
                  /\ ev' = Event("GenSettled", Message("success", "Awesome! You generated a new Pokemon", <<"", "">>, ""))
                  /\ UNCHANGED tokenBalance
             ELSE /\ GenCatch(StoreError(r.err), "add", Without(queue, GenAddRequest))
                  /\ ev' = Step("GenAddFailed")
                  /\ UNCHANGED <<pokemons, isGeneratingPokemon, dbPokemons>>
  /\ UNCHANGED <<isLoading, sortOrder, modal, dbBalance, resell, fetch>>
  /\ UNCHANGED <<initialBalance, api>>

\* line 279 completes: the refund is written (then line 280 and the finally
\* block run), or the write rejects and the rejection leaves the handler
\* through the finally block
GenRollbackDone ==
  /\ gen.pc = "awaitRollback"
  /\ CanComplete(GenRequest)
  /\ \E fault \in StoreFaults :
       LET r == updateTokenBalance(dbBalance, gen.originalTokenBalance, fault)
       IN  IF Resolved(r)
             THEN /\ dbBalance' = r.db
                  /\ ev' = Event("GenRolledBack", Message("error", "Failed to generate Pokemon", gen.error.message, "Tokens refunded."))
             ELSE /\ ev' = Step("GenRollbackFailed")
                  /\ UNCHANGED dbBalance
  /\ GenFinally
  /\ queue' = Without(queue, GenRequest)
  /\ UNCHANGED <<pokemons, tokenBalance, isLoading, sortOrder, modal, dbPokemons, resell, fetch>>
  /\ UNCHANGED <<initialBalance, api>>

(***************************************************************************)
(* handleResellConfirmation, the confirmation it hands to the modal, and   *)
(* closeModal.                                                             *)
(***************************************************************************)
ResellIdle ==
  [pc |-> "idle", updatedPokemon |-> NoPokemon, newBalance |-> 0,
   \* history, kept while the flow runs: the balances and the record, in
   \* memory and in the Store, when the confirmation started
   startBalance |-> 0, startDbBalance |-> 0, startPokemon |-> NoPokemon,
   startDbPokemon |-> NoPokemon]

ResellRequest(family) == Request("resell", 0, family)

RecordOf(s, id) == IF FindIndex(s, id) = 0 THEN NoPokemon ELSE s[FindIndex(s, id)]

\* lines 500-508: the grid (hidden while loading, line 448) shows a Resell
\* button on the OWNED records
ResellButtonShown(i) ==
  /\ ~isLoading
  /\ i \in 1..Len(pokemons)
  /\ pokemons[i].status = OWNED

\* line 307: updatedPokemon
MarkResold(pokemon) == [pokemon EXCEPT !.status = RESOLD]

\* line 310: newBalance
Credited(balance, resellPrice) == balance + resellPrice

\* lines 286-329: the closure captures this render's pokemons (of which it
\* reads pokemons.find(p => p.id === pokemonId), line 305), tokenBalance and
\* sortOrder, and the price of the rarity it was given
handleResellConfirmation(pokemonId, pokemonRarity) ==
  modal' = [isOpen |-> TRUE, isConfirmLoading |-> FALSE,
            closure |-> [pokemonId |-> pokemonId,
                         resellPrice |-> POKEMON_RESELL_VALUES[pokemonRarity],
                         pokemonToResell |-> RecordOf(pokemons, pokemonId),
                         tokenBalance |-> tokenBalance,
                         sortOrder |-> sortOrder]]

\* lines 332-339
closeModal == modal' = ModalClosed

\* a Resell button is clicked (the open modal covers the page)
ResellClick(i) ==
  /\ ~modal.isOpen
  /\ ResellButtonShown(i)
  /\ handleResellConfirmation(pokemons[i].id, pokemons[i].rarity)
  /\ ev' = Step("ResellOpened")
  /\ UNCHANGED <<pokemons, tokenBalance, isLoading, isGeneratingPokemon, sortOrder>>
  /\ UNCHANGED <<store, gen, resell, fetch, queue>>
  /\ UNCHANGED <<initialBalance, api>>

\* the modal's Cancel button
ResellCancel ==
  /\ modal.isOpen
  /\ ~modal.isConfirmLoading
  /\ closeModal
  /\ ev' = Step("ResellCancelled")
  /\ UNCHANGED <<pokemons, tokenBalance, isLoading, isGeneratingPokemon, sortOrder>>
  /\ UNCHANGED <<store, gen, resell, fetch, queue>>
  /\ UNCHANGED <<initialBalance, api>>

\* lines 303-308: the confirmation runs up to its first await
ResellConfirm ==
  /\ modal.isOpen
  /\ ~modal.isConfirmLoading
  /\ LET c == modal.closure
     IN  IF c.pokemonToResell # NoPokemon
           THEN /\ resell' = [ResellIdle EXCEPT
                                !.pc = "awaitUpdate",
                                !.updatedPokemon = MarkResold(c.pokemonToResell),
                                !.startBalance = tokenBalance,
                                !.startDbBalance = dbBalance,
                                !.startPokemon = RecordOf(pokemons, c.pokemonId),
                                !.startDbPokemon = RecordOf(dbPokemons, c.pokemonId)]
                /\ modal' = [modal EXCEPT !.isConfirmLoading = TRUE]
                /\ queue' = Append(queue, ResellRequest("pokemons"))
                /\ ev' = Step("ResellStarted")
           ELSE \* nothing to resell: only the finally block runs
                /\ closeModal
                /\ ev' = Step("ResellNothing")
                /\ UNCHANGED <<resell, queue>>
  /\ gen' = Disturbed(gen)
  /\ UNCHANGED <<pokemons, tokenBalance, isLoading, isGeneratingPokemon, sortOrder>>
  /\ UNCHANGED <<store, fetch>>
  /\ UNCHANGED <<initialBalance, api>>

\* lines 321-327: the catch and finally blocks, and the confirmation's end
ResellCatch(name, err) ==
  /\ ev' = Event(name, Message("error", "Failed to resell Pokemon", <<err, "">>, ""))
  /\ closeModal
  /\ resell' = ResellIdle

\* line 308 completes: the record is written RESOLD (then lines 310-311
\* issue the balance write), or updatePokemon rejects
ResellUpdateDone ==
  /\ resell.pc = "awaitUpdate"
  /\ CanComplete(ResellRequest("pokemons"))
  /\ \E fault \in StoreFaults :
       LET r == updatePokemon(dbPokemons, resell.updatedPokemon, fault)
       IN  IF Resolved(r)
             THEN /\ dbPokemons' = r.db
                  /\ resell' = [resell EXCEPT
                                  !.pc = "awaitBalance",
                                  !.newBalance = Credited(modal.closure.tokenBalance, modal.closure.resellPrice)]
                  /\ queue' = Append(Without(queue, ResellRequest("pokemons")), ResellRequest("balance"))
                  /\ ev' = Step("ResellUpdated")
                  /\ UNCHANGED modal
             ELSE /\ ResellCatch("ResellUpdateFailed", r.err)
                  /\ queue' = Without(queue, ResellRequest("pokemons"))
                  /\ UNCHANGED dbPokemons
  /\ gen' = Disturbed(gen)
  /\ UNCHANGED <<pokemons, tokenBalance, isLoading, isGeneratingPokemon, sortOrder>>
  /\ UNCHANGED <<dbBalance, fetch>>
  /\ UNCHANGED <<initialBalance, api>>

\* prevPokemons.map(p => p.id === updatedPokemon.id ? updatedPokemon : p)
ReplaceById(s, updated) ==
  [i \in 1..Len(s) |-> IF s[i].id = updated.id THEN updated ELSE s[i]]

\* memory updated before the credit is known to be written: lines 314-317
\* moved above the await of line 311
ResellBalanceDone_Optimistic ==
  /\ resell.pc = "awaitBalance"
  /\ CanComplete(ResellRequest("balance"))
  /\ \E fault \in StoreFaults :
       LET r == updateTokenBalance(dbBalance, resell.newBalance, fault)
       IN  /\ pokemons' = sortPokemons(ReplaceById(pokemons, resell.updatedPokemon), modal.closure.sortOrder)
           /\ tokenBalance' = resell.newBalance
           /\ IF Resolved(r)
                THEN /\ dbBalance' = r.db
                     /\ ev' = Event("ResellSettled", Message("success", "resold successfully", <<"", "">>, ""))
                     /\ closeModal
                     /\ resell' = ResellIdle
                ELSE /\ ResellCatch("ResellBalanceFailed", r.err)
                     /\ UNCHANGED dbBalance
  /\ queue' = Without(queue, ResellRequest("balance"))
  /\ gen' = Disturbed(gen)
  /\ UNCHANGED <<isLoading, isGeneratingPokemon, sortOrder, dbPokemons, fetch>>
  /\ UNCHANGED <<initialBalance, api>>

\* line 311 completes: the credit is written (then lines 314-319 and the
\* finally block run), or updateTokenBalance rejects
ResellBalanceDone ==
  /\ resell.pc = "awaitBalance"
  /\ CanComplete(ResellRequest("balance"))
  /\ \E fault \in StoreFaults :
       LET r == updateTokenBalance(dbBalance, resell.newBalance, fault)
       IN  IF Resolved(r)
             THEN /\ dbBalance' = r.db
                  /\ pokemons' = sortPokemons(ReplaceById(pokemons, resell.updatedPokemon), modal.closure.sortOrder)
                  /\ tokenBalance' = resell.newBalance
                  /\ ev' = Event("ResellSettled", Message("success", "resold successfully", <<"", "">>, ""))
                  /\ closeModal
                  /\ resell' = ResellIdle
             ELSE /\ ResellCatch("ResellBalanceFailed", r.err)
                  /\ UNCHANGED <<pokemons, tokenBalance, dbBalance>>
  /\ queue' = Without(queue, ResellRequest("balance"))
  /\ gen' = Disturbed(gen)
  /\ UNCHANGED <<isLoading, isGeneratingPokemon, sortOrder, dbPokemons, fetch>>
  /\ UNCHANGED <<initialBalance, api>>

(***************************************************************************)
(* fetchAppData and the sort order.                                        *)
(***************************************************************************)
\* startedBy (history): what started the run, the mount or a sort change
FetchIdle == [pc |-> "idle", sortOrder |-> "newestFirst", startedBy |-> ""]

FetchRequest(k, family) == Request("fetch", k, family)

\* lines 224-229: the catch and finally blocks, and the run's end
FetchCatch(name, k) ==
  /\ ev' = Event(name, Message("error", "Failed to load app data. Please try again.", <<"", "">>, ""))
  /\ isLoading' = FALSE
  /\ fetch' = [fetch EXCEPT ![k] = FetchIdle]

\* the sort select changes (the open modal covers the page): the effect of
\* lines 232-234 starts fetchAppData (lines 215-218), the effect of lines
\* 237-239 sorts the collection again
SetSortOrder(order) ==
  /\ order # sortOrder
  /\ ~modal.isOpen
  /\ \E k \in 1..MaxFetch :
       /\ fetch[k].pc = "idle"
       /\ \A j \in 1..(k - 1) : fetch[j].pc # "idle"
       /\ fetch' = [fetch EXCEPT ![k] = [pc |-> "awaitPokemons", sortOrder |-> order, startedBy |-> "sort"]]
       /\ queue' = Append(queue, FetchRequest(k, "pokemons"))
  /\ sortOrder' = order
  /\ isLoading' = TRUE
  /\ pokemons' = sortPokemons(pokemons, order)
  /\ gen' = Disturbed(gen)
  /\ ev' = Step("SortChanged")
  /\ UNCHANGED <<tokenBalance, isGeneratingPokemon, modal>>
  /\ UNCHANGED <<store, resell>>
  /\ UNCHANGED <<initialBalance, api>>

\* line 218 completes: the collection is read (then lines 219-221 run), or
\* getPokemons rejects
FetchPokemonsDone(k) ==
  /\ fetch[k].pc = "awaitPokemons"
  /\ CanComplete(FetchRequest(k, "pokemons"))
  /\ \E fault \in StoreFaults :
       LET r == getPokemons(dbPokemons, fault)
       IN  IF Resolved(r)
             THEN /\ pokemons' = sortPokemons(r.value, fetch[k].sortOrder)
                  /\ fetch' = [fetch EXCEPT ![k].pc = "awaitBalance"]
                  /\ queue' = Append(Without(queue, FetchRequest(k, "pokemons")), FetchRequest(k, "balance"))
                  /\ ev' = Step("FetchedPokemons")
                  /\ UNCHANGED isLoading
             ELSE /\ FetchCatch("FetchPokemonsFailed", k)
                  /\ queue' = Without(queue, FetchRequest(k, "pokemons"))
                  /\ UNCHANGED pokemons
  /\ gen' = Disturbed(gen)
  /\ UNCHANGED <<tokenBalance, isGeneratingPokemon, sortOrder, modal>>
  /\ UNCHANGED <<store, resell>>
  /\ UNCHANGED <<initialBalance, api>>

\* line 221 completes: the balance is read (then lines 222-223 and the
\* finally block run), or getTokenBalance rejects
FetchBalanceDone(k) ==
  /\ fetch[k].pc = "awaitBalance"
  /\ CanComplete(FetchRequest(k, "balance"))
  /\ \E fault \in StoreFaults :
       LET r == getTokenBalance(dbBalance, fault)
       IN  IF Resolved(r)
             THEN /\ tokenBalance' = r.value
                  /\ isLoading' = FALSE
                  /\ fetch' = [fetch EXCEPT ![k] = FetchIdle]
                  /\ ev' = Step("FetchedBalance")
             ELSE /\ FetchCatch("FetchBalanceFailed", k)
                  /\ UNCHANGED tokenBalance
  /\ queue' = Without(queue, FetchRequest(k, "balance"))
  /\ gen' = Disturbed(gen)
  /\ UNCHANGED <<pokemons, isGeneratingPokemon, sortOrder, modal>>
  /\ UNCHANGED <<store, resell>>
  /\ UNCHANGED <<initialBalance, api>>

(***************************************************************************)
(* One call of generatePokemon on the clock.  Time is counted in           *)
(* milliseconds since the call was issued and passes in steps of TimeStep. *)
(* The timer of line 36 is armed at the call, cleared at line 50 once      *)
(* fetch has resolved (and at line 101), and its callback runs as soon as  *)
(* it is due.                                                              *)
(***************************************************************************)
\* what a call of generatePokemon does not touch
outside == <<mem, store, gen, resell, fetch, queue, ev, initialBalance>>

NoResult == [ok |-> FALSE, pokemon |-> NoPokemon, error |-> NoError]

\* what the caller gets: the record, or the Error thrown
ApiResult(r) ==
  [ok |-> r.ok,
   pokemon |-> IF r.ok THEN r.pokemon ELSE NoPokemon,
   error |-> IF r.ok THEN NoError ELSE r.error]

\* why a call failed (history): "timeout" (the timer fired), "connectivity"
\* (fetch rejected with 'Failed to fetch'), "remote" (a response that is
\* not ok), "malformed" (a success response that is not the documented
\* one), or "other"; "none" when it did not fail
CauseOf(resp) ==
  IF resp.fetch = "FailedToFetch" THEN "connectivity"
  ELSE IF resp.fetch # "resolved" THEN "other"
  ELSE IF ~resp.ok THEN "remote"
  ELSE IF \/ resp.body # "object"
          \/ ~resp.data.hasMetadata
          \/ resp.data.imageBase64 = ""
          \/ resp.data.id = ""
          \/ resp.data.name = ""
          \/ resp.data.rarity = ""
          \/ resp.data.generatedAt = 0
    THEN "malformed"
  ELSE "none"

ApiIdle ==
  [pc |-> "idle", clock |-> 0, timer |-> FALSE, cause |-> "none",
   resp |-> Failure("", "", "undecodable", ""),
   rnd |-> [type |-> 0, attack |-> 0, attackName |-> 0, pv |-> 0],
   result |-> NoResult]

\* the texts the server puts in error.message (docs/02-api.md, line 66)
ServerMessages == {"Une erreur est survenue lors de la generation du Pokemon.", "Unauthorized"}

\* the statuses of a response that is not ok (docs/02-api.md, lines 55-57)
ErrorStatuses == {"401", "429", "500", "503"}

\* a success body with one required part missing
Missing(part) ==
  LET d == GoodData("pkm_01", "A", 1)
  IN  IF part = "imageBase64" THEN [d EXCEPT !.imageBase64 = ""]
      ELSE IF part = "metadata" THEN [d EXCEPT !.hasMetadata = FALSE, !.id = "", !.name = "", !.rarity = ""]
      ELSE IF part = "id" THEN [d EXCEPT !.id = ""]
      ELSE IF part = "name" THEN [d EXCEPT !.name = ""]
      ELSE IF part = "rarity" THEN [d EXCEPT !.rarity = ""]
      ELSE IF part = "generatedAt" THEN [d EXCEPT !.generatedAt = 0]
      ELSE d

RequiredParts == {"imageBase64", "metadata", "id", "name", "rarity", "generatedAt"}

\* what the network and the server can answer to one call
ApiResponses ==
  {Failure(f, "", "undecodable", "") : f \in {"FailedToFetch", "OtherError"}}
  \cup {Failure("resolved", st, "undecodable", "") : st \in ErrorStatuses}
  \cup {Failure("resolved", st, "noMessage", "") : st \in ErrorStatuses}
  \cup {Failure("resolved", st, "message", msg) : st \in ErrorStatuses, msg \in ServerMessages}
  \cup {Success(Missing(part)) : part \in RequiredParts \cup {"nothing"}}
  \cup {[Success(Missing("nothing")) EXCEPT !.body = b] : b \in {"undecodable", "null"}}
  \cup {Success(WithStats(Missing("nothing")))}

\* Math.random() is u / RandomGrain for some u in 0..(RandomGrain - 1):
\* at least 0, less than 1
RandomGrain == 1000

\* the least and the greatest value of Math.random()
RandomValues == {0, RandomGrain - 1}

\* Math.floor(Math.random() * n)
RandomIndex(u, n) == (u * n) \div RandomGrain

\* lines 68, 71, 74, 77: the four draws
ApiRandomDraws ==
  [type : {RandomIndex(u, Len(POKEMON_TYPES)) : u \in RandomValues},
   attack : {RandomIndex(u, 100 - 10 + 1) : u \in RandomValues},
   attackName : {RandomIndex(u, Len(POKEMON_ATTACKS)) : u \in RandomValues},
   pv : {RandomIndex(u, 200 - 50 + 1) : u \in RandomValues}]

\* lines 33-39: the call is issued, the timer armed
ApiCall ==
  /\ api.pc = "idle"
  /\ \E resp \in ApiResponses, rnd \in ApiRandomDraws :
       api' = [pc |-> "fetching", clock |-> 0, timer |-> TRUE, cause |-> "none",
               resp |-> resp, rnd |-> rnd, result |-> NoResult]
  /\ UNCHANGED outside

\* the timer's callback is due
TimerDue == api.timer /\ api.clock >= REQUEST_TIMEOUT

\* time passes while the call is pending
ApiTick ==
  /\ api.pc \in {"fetching", "reading"}
  /\ ~TimerDue
  /\ api.clock < MaxClock
  /\ api' = [api EXCEPT !.clock = @ + TimeStep]
  /\ UNCHANGED outside

\* line 36: the timer aborts the fetch, which rejects with AbortError
\* (lines 100-106)
ApiTimerFires ==
  /\ api.pc = "fetching"
  /\ TimerDue
  /\ api' = [api EXCEPT
               !.pc = "done", !.timer = FALSE, !.cause = "timeout",
               !.result = ApiResult(generatePokemon([api.resp EXCEPT !.fetch = "AbortError"], api.rnd))]
  /\ UNCHANGED outside

\* lines 39-50: fetch settles before the timer is due; it rejects (lines
\* 100-116), or resolves and the timer is cleared
ApiFetchSettles ==
  /\ api.pc = "fetching"
  /\ ~TimerDue
  /\ IF api.resp.fetch # "resolved"
       THEN api' = [api EXCEPT !.pc = "done", !.timer = FALSE,
                                !.cause = CauseOf(api.resp),
                                !.result = ApiResult(generatePokemon(api.resp, api.rnd))]
       ELSE api' = [api EXCEPT !.pc = "reading", !.timer = FALSE]
  /\ UNCHANGED outside

\* lines 52-98: res.json() settles and the call resolves or rejects
ApiBodySettles ==
  /\ api.pc = "reading"
  /\ api' = [api EXCEPT !.pc = "done", !.cause = CauseOf(api.resp),
                        !.result = ApiResult(generatePokemon(api.resp, api.rnd))]
  /\ UNCHANGED outside

\* the caller has the result
ApiReturn ==
  /\ api.pc = "done"
  /\ api' = ApiIdle
  /\ UNCHANGED outside

(***************************************************************************)
(* The application once mounted: the state of lines 177-190, and the first *)
(* fetchAppData (lines 232-234) in flight.  The Store holds the balance a  *)
(* previous session left.                                                  *)
(***************************************************************************)
InitBalances == {GENERATION_COST - 1, MaxInitBalance}

Init ==
  /\ pokemons = <<>>
  /\ tokenBalance = 0
  /\ isLoading = TRUE
  /\ isGeneratingPokemon = FALSE
  /\ sortOrder = "newestFirst"
  /\ modal = ModalClosed
  /\ dbPokemons = <<>>
  /\ dbBalance \in InitBalances
  /\ gen = GenIdle
  /\ resell = ResellIdle
  /\ fetch = [k \in 1..MaxFetch |-> IF k = 1 THEN [pc |-> "awaitPokemons", sortOrder |-> "newestFirst", startedBy |-> "mount"] ELSE FetchIdle]
  /\ queue = <<FetchRequest(1, "pokemons")>>
  /\ ev = Step("Mounted")
  /\ initialBalance = dbBalance
  /\ api = ApiIdle

Next ==
  \/ GenerateClick
  \/ GenDebitDone
  \/ GenFetchDone
  \/ GenBodyDone
  \/ GenAddDone
  \/ GenRollbackDone
  \/ \E i \in 1..MaxPokemons : ResellClick(i)
  \/ ResellCancel
  \/ ResellConfirm
  \/ ResellUpdateDone
  \/ ResellBalanceDone
  \/ \E order \in SortOrder : SetSortOrder(order)
  \/ \E k \in 1..MaxFetch : FetchPokemonsDone(k)
  \/ \E k \in 1..MaxFetch : FetchBalanceDone(k)

Spec == Init /\ [][Next]_vars

(***************************************************************************)
(* What the scheduling guarantees.  A Store request that can complete      *)
(* does complete: the storage engine settles every request it accepted.    *)
(* The pending fetch of the remote call settles: the timer of line 36      *)
(* aborts it after REQUEST_TIMEOUT at the latest.  Nothing makes the       *)
(* reading of the body (line 64) settle: the timer is cleared at line 50,  *)
(* before it starts.  The user is never bound to act.                      *)
(***************************************************************************)
StoreSettles ==
  /\ WF_vars(GenDebitDone)
  /\ WF_vars(GenAddDone)
  /\ WF_vars(GenRollbackDone)
  /\ WF_vars(ResellUpdateDone)
  /\ WF_vars(ResellBalanceDone)
  /\ \A k \in 1..MaxFetch : WF_vars(FetchPokemonsDone(k)) /\ WF_vars(FetchBalanceDone(k))

FetchSettles == WF_vars(GenFetchDone)

SpecLive == Init /\ [][Next]_vars /\ StoreSettles /\ FetchSettles

(***************************************************************************)
(* The handler of the generate button called whatever line 414 says about  *)
(* the balance: the button is disabled exactly when the handler's own      *)
(* check (lines 255-258) would reject, so only a caller other than the     *)
(* button reaches that check.                                              *)
(***************************************************************************)
GenerateInvoked ==
  /\ ~isGeneratingPokemon
  /\ ~isLoading
  /\ ~modal.isOpen
  /\ handleGeneratePokemon
  /\ UNCHANGED <<initialBalance, api>>

NextInvoke == Next \/ GenerateInvoked

SpecInvoke == Init /\ [][NextInvoke]_vars

(***************************************************************************)
(* sortPokemons alone: a collection of up to MaxSortLen records of any     *)
(* rarities, generated one after the other, is on display newest first,    *)
(* and is sorted again and again as the sort order is set (lines 237-239). *)
(***************************************************************************)
SortRecord(k, rarity, at) ==
  [NoPokemon EXCEPT !.id = IdNames[k], !.name = "Voltadraco",
                    !.rarity = rarity, !.type = POKEMON_TYPES[1],
                    !.attack = 10, !.attackName = POKEMON_ATTACKS[1],
                    !.pv = 50, !.imageBase64 = "iVBORw0KGgo",
                    !.generatedAt = at, !.status = OWNED]

SortInputs ==
  UNION {{[k \in 1..n |-> SortRecord(k, r[k], k)] : r \in [1..n -> PokemonRarity]} :
         n \in 0..MaxSortLen}

InitSort ==
  /\ dbPokemons \in SortInputs
  /\ pokemons = sortPokemons(dbPokemons, "newestFirst")
  /\ sortOrder = "newestFirst"
  /\ tokenBalance = 0
  /\ dbBalance = 0
  /\ initialBalance = 0
  /\ isLoading = FALSE
  /\ isGeneratingPokemon = FALSE
  /\ modal = ModalClosed
  /\ gen = GenIdle
  /\ resell = ResellIdle
  /\ fetch = [k \in 1..MaxFetch |-> FetchIdle]
  /\ queue = <<>>
  /\ ev = Step("Mounted")
  /\ api = ApiIdle

\* lines 237-239: the collection on display is sorted by the order set
ApplySort(order) ==
  /\ sortOrder' = order
  /\ pokemons' = sortPokemons(pokemons, order)
  /\ UNCHANGED <<tokenBalance, isLoading, isGeneratingPokemon, modal>>
  /\ UNCHANGED <<store, gen, resell, fetch, queue, ev, initialBalance, api>>

NextSort == \E order \in SortOrder : ApplySort(order)

SpecSort == InitSort /\ [][NextSort]_vars

(***************************************************************************)
(* generatePokemon alone, called again and again on the clock.             *)
(***************************************************************************)
NextApi ==
  \/ ApiCall
  \/ ApiTick
  \/ ApiTimerFires
  \/ ApiFetchSettles
  \/ ApiBodySettles
  \/ ApiReturn

SpecApi == Init /\ [][NextApi]_vars

(***************************************************************************)
(* Steps, as the properties below name them.                               *)
(***************************************************************************)
\* the step that ends a generate flow
GenEnds == gen.pc # "idle" /\ gen'.pc = "idle"

\* the step that ends a generate flow all of whose calls succeeded
GenSettles == gen.pc = "awaitAdd" /\ ev'.name = "GenSettled"

\* the step that ends a resell flow
ResellEnds == resell.pc # "idle" /\ resell'.pc = "idle"

\* the step that ends a resell flow both of whose Store writes succeeded
ResellSettles == resell.pc = "awaitBalance" /\ ev'.name = "ResellSettled"

\* the flow in flight resells a record that was not OWNED, in memory or in
\* the Store, when it was confirmed
ResellsNotOwned ==
  resell.startPokemon.status # OWNED \/ resell.startDbPokemon.status # OWNED

\* the balance write of the resell flow is queued
CreditQueued(q) == \E i \in 1..Len(q) : q[i] = ResellRequest("balance")

(***************************************************************************)
(* C1.  Every generate flow in which the remote generator and every Store  *)
(* call succeed ends with the balance, in memory and in the Store, equal   *)
(* to the balance at its start minus 10, and with exactly one new OWNED    *)
(* record in the Store and in the in-memory collection.                    *)
(***************************************************************************)
C1_GenerateSuccess ==
  [][GenSettles =>
       LET new == gen.newPokemon
       IN  /\ tokenBalance' = gen.originalTokenBalance - GENERATION_COST
           /\ dbBalance' = gen.originalTokenBalance - GENERATION_COST
           /\ new.status = OWNED
           /\ new.id \notin gen.startIds
           /\ new.id \notin gen.startDbIds
           /\ IdsOf(pokemons') = gen.startIds \cup {new.id}
           /\ IdsOf(dbPokemons') = gen.startDbIds \cup {new.id}
           /\ Len(pokemons') = Cardinality(gen.startIds) + 1
           /\ Len(dbPokemons') = Cardinality(gen.startDbIds) + 1
           /\ RecordOf(pokemons', new.id) = new
           /\ RecordOf(dbPokemons', new.id) = new]_vars

(***************************************************************************)
(* C2.  Every generate flow in which the remote generator fails ends with  *)
(* the balance, in memory and in the Store, equal to the balance at its    *)
(* start, and with no record added to the Store or to the in-memory        *)
(* collection.                                                             *)
(***************************************************************************)
C2_RemoteFailureRestores ==
  [][GenEnds /\ gen.failedAt = "api" =>
       /\ tokenBalance' = gen.originalTokenBalance
       /\ dbBalance' = gen.originalTokenBalance
       /\ IdsOf(pokemons') = gen.startIds
       /\ IdsOf(dbPokemons') = gen.startDbIds]_vars

(***************************************************************************)
(* C3.  Whenever a generate flow has completed, with any outcome (success, *)
(* remote failure, failure of any Store call, the debit write and the      *)
(* rollback write included), the in-memory balance equals the balance the  *)
(* Store holds.                                                            *)
(***************************************************************************)
C3_BalanceAgreesAfterGenerate ==
  [][GenEnds => tokenBalance' = dbBalance']_vars

(***************************************************************************)
(* C4.  Every successful resell of a record ends with the balance equal to *)
(* the balance at the start of the flow plus the resell value of the       *)
(* record's rarity, with the record RESOLD in memory and in the Store, and *)
(* with every other field of the record unchanged.                         *)
(***************************************************************************)
C4_ResellSuccess ==
  [][ResellSettles =>
       LET old == resell.startPokemon
           value == POKEMON_RESELL_VALUES[old.rarity]
       IN  /\ tokenBalance' = resell.startBalance + value
           /\ dbBalance' = resell.startDbBalance + value
           /\ RecordOf(pokemons', old.id) = [old EXCEPT !.status = RESOLD]
           /\ RecordOf(dbPokemons', old.id) = [old EXCEPT !.status = RESOLD]]_vars

(***************************************************************************)
(* C5.  A resell of a record that is already RESOLD, or of an id that is   *)
(* not in the collection, fails (NotResellable) and changes neither the    *)
(* balance nor any record, in memory or in the Store: the flow ends with   *)
(* an error shown, and none of its steps writes.                           *)
(***************************************************************************)
C5_ResoldNotResellable ==
  [][/\ ev'.name = "ResellNothing" => ev'.message.type = "error"
     /\ ResellEnds /\ ResellsNotOwned =>
          /\ ev'.message.type = "error"
          /\ UNCHANGED <<pokemons, tokenBalance, dbPokemons, dbBalance>>]_vars

(***************************************************************************)
(* C6.  A generate invoked when the balance is below the cost 10 is        *)
(* rejected (InsufficientFunds, shown as a warning) and changes nothing:   *)
(* no Store write is issued, the remote generator is not called, and the   *)
(* in-memory balance and collection are unchanged.                         *)
(***************************************************************************)
C6_InsufficientFundsRejected ==
  [][tokenBalance < GENERATION_COST /\ ev'.name \in {"GenRejected", "GenStarted"} =>
       /\ ev'.name = "GenRejected"
       /\ ev'.message.type = "warning"
       /\ UNCHANGED <<mem, store, gen, resell, fetch, queue>>]_vars

\* C6, witness: the handler has just rejected a generation at a balance
\* one short of the cost, with nothing in flight.
C6_Witness ==
  /\ ev.name = "GenRejected"
  /\ tokenBalance = GENERATION_COST - 1
  /\ dbBalance = GENERATION_COST - 1
  /\ gen.pc = "idle"
  /\ queue = <<>>

(***************************************************************************)
(* C7.  In the resell flow the record's status is written to the Store     *)
(* first and the balance credit second, and memory is updated only after   *)
(* both writes have succeeded: the credit is issued only by the step at    *)
(* which updatePokemon has succeeded, a failed updatePokemon issues no     *)
(* balance write, and a step of the flow other than the one at which the   *)
(* second write succeeds leaves the in-memory collection and balance as    *)
(* they were.                                                              *)
(***************************************************************************)
C7_ResellWriteOrder ==
  [][/\ ev'.name = "ResellStarted" =>
          /\ queue' = Append(queue, ResellRequest("pokemons"))
          /\ ~CreditQueued(queue')
          /\ UNCHANGED <<pokemons, tokenBalance, dbPokemons, dbBalance>>
     /\ CreditQueued(queue') /\ ~CreditQueued(queue) =>
          /\ ev'.name = "ResellUpdated"
          /\ resell.pc = "awaitUpdate"
     /\ ev'.name = "ResellUpdated" =>
          /\ RecordOf(dbPokemons', resell.updatedPokemon.id) = resell.updatedPokemon
          /\ resell.updatedPokemon.status = RESOLD
          /\ UNCHANGED <<pokemons, tokenBalance, dbBalance>>
     /\ ev'.name = "ResellUpdateFailed" =>
          /\ ~CreditQueued(queue')
          /\ UNCHANGED <<pokemons, tokenBalance, dbPokemons, dbBalance>>
     /\ ev'.name = "ResellBalanceFailed" =>
          /\ UNCHANGED <<pokemons, tokenBalance, dbPokemons, dbBalance>>
     /\ ev'.name = "ResellSettled" =>
          /\ resell.pc = "awaitBalance"
          /\ RecordOf(dbPokemons, resell.updatedPokemon.id).status = RESOLD
          /\ dbBalance' = resell.newBalance
          /\ tokenBalance' = resell.newBalance
          /\ RecordOf(pokemons', resell.updatedPokemon.id).status = RESOLD]_vars

\* C7, witness: the status write succeeded and the balance write failed;
\* the record is RESOLD in the Store and still OWNED in memory, and the
\* in-memory balance is the one the Store holds.
C7_Witness ==
  /\ ev.name = "ResellBalanceFailed"
  /\ Len(pokemons) = 1
  /\ pokemons[1].status = OWNED
  /\ RecordOf(dbPokemons, pokemons[1].id).status = RESOLD
  /\ tokenBalance = dbBalance

(***************************************************************************)
(* C8.  The token balance is non-negative in every reachable state, in     *)
(* memory and in the Store, after any sequence and interleaving of         *)
(* generate and resell flows.                                              *)
(***************************************************************************)
C8_BalanceNonNegative == tokenBalance >= 0 /\ dbBalance >= 0

\* C8, witness: a generate flow and a resell flow are both in flight and the
\* balance, in memory and in the Store, is down to 0.
C8_Witness ==
  /\ gen.pc = "awaitApi"
  /\ resell.pc = "awaitUpdate"
  /\ tokenBalance = 0
  /\ dbBalance = 0

(***************************************************************************)
(* C9.  A record's status only ever changes from OWNED to RESOLD and never *)
(* back, a record is created only by a successful generation, is updated   *)
(* at most once (by resell: the Store's update is applied to an OWNED      *)
(* record only), and is never removed from the Store or from the in-memory *)
(* collection.                                                             *)
(***************************************************************************)
C9_RecordLifecycle ==
  [][/\ \A i \in 1..Len(dbPokemons) :
          LET new == RecordOf(dbPokemons', dbPokemons[i].id)
          IN  /\ new # NoPokemon
              /\ new = dbPokemons[i] \/ new = [dbPokemons[i] EXCEPT !.status = RESOLD]
     /\ \A i \in 1..Len(pokemons) :
          LET new == RecordOf(pokemons', pokemons[i].id)
          IN  /\ new # NoPokemon
              /\ new = pokemons[i] \/ new = [pokemons[i] EXCEPT !.status = RESOLD]
     /\ IdsOf(dbPokemons') # IdsOf(dbPokemons) => ev'.name = "GenSettled"
     /\ IdsOf(pokemons') \subseteq IdsOf(pokemons) \cup IdsOf(dbPokemons')
     /\ ev'.name = "ResellUpdated" =>
          RecordOf(dbPokemons, resell.updatedPokemon.id).status = OWNED]_vars

(***************************************************************************)
(* C10.  If the remote generator succeeds and the Store's addPokemon       *)
(* fails, the generate flow rolls back as for a remote failure: the        *)
(* balance is restored to its value before the debit, in memory and in the *)
(* Store, the new record is not merged into the in-memory collection, and  *)
(* a failure is shown.                                                     *)
(***************************************************************************)
C10_AddFailureRollsBack ==
  [][GenEnds /\ gen.failedAt = "add" =>
       /\ tokenBalance' = gen.originalTokenBalance
       /\ dbBalance' = gen.originalTokenBalance
       /\ IdsOf(pokemons') = gen.startIds
       /\ IdsOf(dbPokemons') = gen.startDbIds
       /\ ev'.message.type = "error"]_vars

(***************************************************************************)
(* C11.  A call of generatePokemon (the request and the reading of the     *)
(* response) that has not completed 30 time units (REQUEST_TIMEOUT) after  *)
(* it was issued is cancelled and fails with Timeout: no call is pending   *)
(* past the deadline, and a call that ends at or after it has failed with  *)
(* Timeout.                                                                *)
(***************************************************************************)
C11_HardTimeout ==
  /\ api.pc \in {"fetching", "reading"} => api.clock <= REQUEST_TIMEOUT
  /\ api.pc = "done" /\ api.clock >= REQUEST_TIMEOUT =>
       ~api.result.ok /\ api.result.error.kind = "Timeout"

\* the call has ended on the response it received (its timer did not fire)
Answered == api.pc = "done" /\ api.cause # "timeout"

(***************************************************************************)
(* C12.  On a success response from which a required part is missing (the  *)
(* image payload, the metadata object or its id, name or rarity, or        *)
(* generatedAt), or whose body cannot be decoded, generatePokemon fails    *)
(* with MalformedResponse (the error of its line 82) and returns no        *)
(* record.                                                                 *)
(***************************************************************************)
C12_MalformedRejected ==
  Answered /\ api.cause = "malformed" =>
    /\ ~api.result.ok
    /\ api.result.pokemon = NoPokemon
    /\ api.result.error.kind = "MalformedResponse"

(***************************************************************************)
(* C13.  On a response that is not a success generatePokemon fails and     *)
(* returns no record, whatever the status (401, 429, 500 or other): when   *)
(* the error body decodes and holds a message the failure is RemoteError   *)
(* and carries that message; when the body does not decode (or holds no    *)
(* message) the failure is UnknownError and carries the HTTP status.       *)
(***************************************************************************)
C13_ErrorResponsePath ==
  Answered /\ api.resp.fetch = "resolved" /\ ~api.resp.ok =>
    /\ ~api.result.ok
    /\ api.result.pokemon = NoPokemon
    /\ api.resp.errorBody = "message" =>
         /\ api.result.error.kind = "RemoteError"
         /\ api.result.error.message = <<api.resp.errorMessage, "">>
    /\ api.resp.errorBody \in {"undecodable", "noMessage"} =>
         /\ api.result.error.kind = "UnknownError"
         /\ api.result.error.message[2] = api.resp.status

\* C13, witness: a 429 whose body decodes to the server's message has been
\* reported with that message.
C13_Witness ==
  /\ api.pc = "done"
  /\ api.resp.status = "429"
  /\ api.resp.errorBody = "message"
  /\ api.result.error.message[1] \in ServerMessages

\* the four causes of failure the client tells apart
FourCauses == {"connectivity", "timeout", "malformed", "remote"}

\* the failure the call under way would have ended with for another cause:
\* its timer firing, or another answer
FailureFor(cause, resp) ==
  IF cause = "timeout"
    THEN generatePokemon([resp EXCEPT !.fetch = "AbortError"], api.rnd)
    ELSE generatePokemon(resp, api.rnd)

C15_OneFlowAtATime ==
  [][ev'.name \in {"GenStarted", "ResellStarted"} =>
       gen.pc = "idle" /\ resell.pc = "idle"]_vars

(***************************************************************************)
(* C16.  When a generate flow fails after the debit, the failure shown is  *)
(* the underlying failure itself (its own message), annotated "Tokens      *)
(* refunded."; the annotation is shown only when the Store balance has     *)
(* been restored to its value before the debit; and the remote generator   *)
(* is called once per flow, never again after a failure.                   *)
(***************************************************************************)
C16_FailureSurfacedOnce ==
  [][/\ GenEnds /\ gen.failedAt \in {"api", "add"} =>
          /\ ev'.message.type = "error"
          /\ ev'.message.error = gen.error.message
          /\ ev'.message.note = "Tokens refunded."
     /\ ev'.message.note = "Tokens refunded." =>
          dbBalance' = gen.originalTokenBalance
     /\ gen'.pc = "awaitApi" /\ gen.pc # "awaitApi" => gen.pc = "awaitDebit"]_vars

(***************************************************************************)
(* C17.  In every reachable state the score is 10 times the number of      *)
(* OWNED records plus 2 times the number of RESOLD records of the          *)
(* in-memory collection.                                                   *)
(***************************************************************************)
C17_ScoreFormula ==
  pokedexScore(pokemons) =
    10 * Cardinality({i \in 1..Len(pokemons) : pokemons[i].status = OWNED})
    + 2 * Cardinality({i \in 1..Len(pokemons) : pokemons[i].status = RESOLD})

\* C17, witness: the collection holds an OWNED and a RESOLD record, and the
\* score is 12.
C17_Witness ==
  /\ Len(pokemons) = 2
  /\ \E i, j \in 1..2 : pokemons[i].status = OWNED /\ pokemons[j].status = RESOLD
  /\ pokedexScore(pokemons) = 12

\* a sequence back to front
Reversed(s) == [i \in 1..Len(s) |-> s[Len(s) + 1 - i]]

\* the rarities of a sequence of records, in order
RaritiesOf(s) == [i \in 1..Len(s) |-> s[i].rarity]

\* the fixed order of the rarities, least first
RarityOrder == <<"F", "E", "D", "C", "B", "A", "S", "S+">>

RankOf(rarity) == CHOOSE k \in 1..Len(RarityOrder) : RarityOrder[k] = rarity

(***************************************************************************)
(* C18.  As claimed: for every collection, one in which several records    *)
(* share a rarity included, sorting it by rarity ascending and sorting it  *)
(* by rarity descending yield sequences that are exact reverses of each    *)
(* other.                                                                  *)
(***************************************************************************)
C18_ExactReverses_AsClaimed ==
  sortPokemons(pokemons, "rarityAsc") = Reversed(sortPokemons(pokemons, "rarityDesc"))

\* C18, amended: under the order F < E < D < C < B < A < S < S+ the
\* ascending sort puts the rarities in non-decreasing order, the rarities of
\* the descending sort are those of the ascending sort reversed, and the two
\* sorted sequences are exact reverses of each other when no two records
\* share a rarity; records that share a rarity keep their relative order in
\* both.
C18_ReversedRarities ==
  LET asc == sortPokemons(pokemons, "rarityAsc")
      desc == sortPokemons(pokemons, "rarityDesc")
      distinct == \A i, j \in 1..Len(pokemons) :
                    i # j => pokemons[i].rarity # pokemons[j].rarity
  IN  /\ Len(asc) = Len(pokemons)
      /\ Range(asc) = Range(pokemons)
      /\ \A i \in 1..(Len(asc) - 1) : RankOf(asc[i].rarity) <= RankOf(asc[i + 1].rarity)
      /\ RaritiesOf(asc) = Reversed(RaritiesOf(desc))
      /\ distinct => asc = Reversed(desc)
      /\ \A i, j \in 1..Len(pokemons) :
           i < j /\ pokemons[i].rarity = pokemons[j].rarity =>
             /\ FindIndex(asc, pokemons[i].id) < FindIndex(asc, pokemons[j].id)
             /\ FindIndex(desc, pokemons[i].id) < FindIndex(desc, pokemons[j].id)

\* C18, witness: a collection of three records, two of which share a rarity,
\* is on display sorted by rarity, greatest first.
C18_Witness ==
  /\ sortOrder = "rarityDesc"
  /\ Len(pokemons) = 3
  /\ pokemons[1].rarity = "S+"
  /\ pokemons[2].rarity = "F"
  /\ pokemons[3].rarity = "F"

\* the resell values of the RESOLD records of a sequence, added up
RECURSIVE ResoldValue(_)
ResoldValue(s) ==
  IF s = <<>> THEN 0
  ELSE (IF Head(s).status = RESOLD THEN POKEMON_RESELL_VALUES[Head(s).rarity] ELSE 0)
       + ResoldValue(Tail(s))

\* no generate or resell flow is in flight and no Store request is queued
AllFlowsCompleted == gen.pc = "idle" /\ resell.pc = "idle" /\ queue = <<>>

(***************************************************************************)
(* C19.  Once all generate and resell flows have completed, the Store      *)
(* balance is the initial balance, minus GENERATION_COST for each record   *)
(* in the Store, plus the resell value of each record whose Store status   *)
(* is RESOLD: no debit or credit is lost or applied twice.                 *)
(***************************************************************************)
C19_BalanceConserved ==
  AllFlowsCompleted =>
    dbBalance = initialBalance - GENERATION_COST * Len(dbPokemons) + ResoldValue(dbPokemons)

(***************************************************************************)
(* C20.  Every generate flow that has started eventually completes, and on *)
(* completion isGeneratingPokemon is false again: the flow does not stay   *)
(* in the debit, the remote call, the persisting or the rollback forever.  *)
(***************************************************************************)
C20_GenerateCompletes ==
  (gen.pc # "idle") ~> (gen.pc = "idle" /\ ~isGeneratingPokemon)

\* the generate flow moves to the given position
GenMovesTo(pc) == gen.pc # pc /\ gen'.pc = pc

(***************************************************************************)
(* C21.  Within one generate flow the steps happen strictly in order, each *)
(* only after the result of the one before is known: the remote generator  *)
(* is called only once the debit has been written to the Store, addPokemon *)
(* is called only once the remote generator has returned a record, the     *)
(* record is merged into the collection in memory only once addPokemon has *)
(* written it to the Store, and after a rejected debit write the flow only *)
(* rolls back: no remote call, no addPokemon, no record.                   *)
(***************************************************************************)
C21_GenerateStepsInOrder ==
  [][/\ GenMovesTo("awaitDebit") => gen.pc = "idle"
     /\ GenMovesTo("awaitApi") =>
          /\ gen.pc = "awaitDebit"
          /\ ev'.name = "GenDebited"
          /\ dbBalance' = Debited(gen.originalTokenBalance)
     /\ GenMovesTo("awaitBody") => gen.pc = "awaitApi"
     /\ GenMovesTo("awaitAdd") =>
          /\ gen.pc = "awaitBody"
          /\ ev'.name = "GenApiOk"
          /\ gen'.newPokemon # NoPokemon
          /\ gen'.newPokemon.status = OWNED
     /\ ev'.name = "GenSettled" =>
          /\ gen.pc = "awaitAdd"
          /\ gen.newPokemon \in Range(dbPokemons')
          /\ IdsOf(pokemons') = IdsOf(pokemons) \cup {gen.newPokemon.id}
     /\ gen.pc \in {"awaitDebit", "awaitApi", "awaitBody", "awaitRollback"} =>
          /\ IdsOf(dbPokemons') = IdsOf(dbPokemons)
          /\ IdsOf(pokemons') \subseteq IdsOf(dbPokemons)
     /\ ev'.name = "GenDebitFailed" =>
          /\ gen'.pc = "awaitRollback"
          /\ gen'.failedAt = "debit"
          /\ gen'.newPokemon = NoPokemon
     /\ gen.pc = "awaitRollback" =>
          /\ gen'.pc \in {"awaitRollback", "idle"}
          /\ gen'.pc = "awaitRollback" => gen'.failedAt = gen.failedAt
  ]_vars

\* C21, witness: after a generation that settled, the debit write of a
\* second generation has just been rejected and the flow is rolling back.
C21_Witness ==
  /\ ev.name = "GenDebitFailed"
  /\ gen.pc = "awaitRollback"
  /\ gen.failedAt = "debit"
  /\ Len(dbPokemons) = 1
  /\ Len(pokemons) = 1

\* the call has returned a record
Returned == api.pc = "done" /\ api.result.ok

(***************************************************************************)
(* C22.  Every record a successful generatePokemon returns has status      *)
(* OWNED, a type of the 18 fixed types, an attackName of the fixed attack  *)
(* names, an attack from 10 to 100 and a pv from 50 to 200, whatever the   *)
(* response held or did not hold for these four, and its id, name, rarity, *)
(* imageBase64 and generatedAt are those of the response.                  *)
(***************************************************************************)
C22_ReturnedRecord ==
  Returned =>
    LET p == api.result.pokemon
        data == api.resp.data
    IN  /\ p.status = OWNED
        /\ Len(POKEMON_TYPES) = 18
        /\ p.type \in Range(POKEMON_TYPES)
        /\ p.attackName \in Range(POKEMON_ATTACKS)
        /\ p.attack \in 10..100
        /\ p.pv \in 50..200
        /\ p.id = data.id
        /\ p.name = data.name
        /\ p.rarity = data.rarity
        /\ p.imageBase64 = data.imageBase64
        /\ p.generatedAt = data.generatedAt

\* C22, witness: a response that held stats of its own was answered with a
\* record of the greatest attack and the least pv that can be drawn.
C22_Witness ==
  /\ Returned
  /\ api.resp.data.type = "Shadow"
  /\ api.resp.data.attack = 999
  /\ api.result.pokemon.attack = 100
  /\ api.result.pokemon.pv = 50
  /\ api.result.pokemon.type = "Fairy"

\* the record in memory is in the Store, the same but for its status
InStore(p) ==
  LET d == RecordOf(dbPokemons, p.id)
  IN  d # NoPokemon /\ [d EXCEPT !.status = p.status] = p

(***************************************************************************)
(* C23.  The collection in memory never runs ahead of the Store: every     *)
(* record in memory is in the Store, and every record that is RESOLD in    *)
(* memory is RESOLD in the Store.                                          *)
(***************************************************************************)
C23_MemoryNotAhead ==
  \A i \in 1..Len(pokemons) :
    /\ InStore(pokemons[i])
    /\ pokemons[i].status = RESOLD => RecordOf(dbPokemons, pokemons[i].id).status = RESOLD

\* C23, witness: of two records in memory one is RESOLD, in memory and in
\* the Store, and the other is OWNED in memory while the Store, ahead of
\* memory, has it RESOLD.
C23_Witness ==
  /\ Len(pokemons) = 2
  /\ \E i, j \in 1..2 :
       /\ pokemons[i].status = RESOLD
       /\ RecordOf(dbPokemons, pokemons[i].id).status = RESOLD
       /\ pokemons[j].status = OWNED
       /\ RecordOf(dbPokemons, pokemons[j].id).status = RESOLD

\* a step of a fetchAppData that a change of the sort order started
SortFetchStep == \E k \in 1..MaxFetch : fetch[k].startedBy = "sort" /\ fetch'[k] # fetch[k]

\* nothing but the order of the collection in memory changes
OnlyOrderChanges ==
  /\ tokenBalance' = tokenBalance
  /\ Len(pokemons') = Len(pokemons)
  /\ Range(pokemons') = Range(pokemons)
  /\ dbPokemons' = dbPokemons
  /\ dbBalance' = dbBalance

(***************************************************************************)
(* C24.  Changing the sort order changes only the order of the collection  *)
(* in memory: through the change and all it starts, the balance in memory, *)
(* the set of records in memory and every field of every record stay as    *)
(* they were and nothing is written to the Store, also while a generate or *)
(* a resell flow is in flight or after a resell whose second Store write   *)
(* was rejected.                                                           *)
(***************************************************************************)
C24_SortChangesOrderOnly ==
  [][ev'.name = "SortChanged" \/ SortFetchStep => OnlyOrderChanges]_vars

====
